---- MODULE Spec2Model ----
(***************************************************************************)
(* UptimeMonitor (app.py): the background polling loop, the per-site       *)
(* check (TLS expiry, HTTP GET, content match, log INSERT, Telegram alert) *)
(* and the web routes that change the sites and logs tables.               *)
(*                                                                         *)
(* Python values: None is the empty sequence and a present value x is the  *)
(* one-element sequence <<x>>; a str is a sequence of characters.          *)
(***************************************************************************)
EXTENDS Integers, Sequences, FiniteSets, TLC

\* ---------------------------------------------------------------- bounds
MaxSites == 2
MaxCycles == 2

\* ------------------------------------------------------- Python values
None == <<>>
Some(x) == <<x>>
IsNone(v) == v = <<>>
Val(v) == v[1]

\* str literals, character by character
HTTPS_PREFIX == <<"h","t","t","p","s",":","/","/">>
HTTP_PREFIX == <<"h","t","t","p",":","/","/">>
EmptyStr == <<>>

\* str.startswith(prefix)
StartsWith(s, prefix) ==
  /\ Len(s) >= Len(prefix)
  /\ SubSeq(s, 1, Len(prefix)) = prefix

\* needle in haystack (substring test of two str values)
Contains(haystack, needle) ==
  \E k \in 0..(Len(haystack) - Len(needle)) :
    SubSeq(haystack, k + 1, k + Len(needle)) = needle

\* str.strip(): drop leading and trailing blanks
RECURSIVE LStrip(_)
LStrip(s) == IF s # <<>> /\ Head(s) = " " THEN LStrip(Tail(s)) ELSE s

RECURSIVE RStrip(_)
RStrip(s) ==
  IF s # <<>> /\ s[Len(s)] = " " THEN RStrip(SubSeq(s, 1, Len(s) - 1)) ELSE s

Strip(s) == RStrip(LStrip(s))

\* truth value of a str: the empty str is false
Truthy(s) == s # <<>>

\* truth value of an optional str (None and "" are false)
TruthyOpt(v) == (~IsNone(v)) /\ Truthy(Val(v))

Max(a, b) == IF a >= b THEN a ELSE b

\* -------------------------------------------------- inputs of the model
\* POST / form fields (url, interval, text) as typed by the user
Forms ==
  { [url |-> <<" ">> \o HTTPS_PREFIX \o <<"a">>, interval |-> 60, text |-> <<" ">>],
    [url |-> HTTP_PREFIX \o <<"a">>, interval |-> 5, text |-> <<"a">>],
    [url |-> <<" ">>, interval |-> 60, text |-> EmptyStr] }

\* os.getenv("TELEGRAM_TOKEN"), os.getenv("TELEGRAM_CHAT_ID")
Deployments ==
  { [TELEGRAM_TOKEN |-> Some(<<"t">>), TELEGRAM_CHAT_ID |-> None],
    [TELEGRAM_TOKEN |-> Some(<<"t">>), TELEGRAM_CHAT_ID |-> Some(<<"c">>)] }

\* check_ssl_expiry: days_left on success, None when the inspection raised
TlsResults == { None, Some(6), Some(7) }

\* requests.get: None when it raised, else the response
HttpResults ==
  { None,
    Some([status_code |-> 200, text |-> <<"a">>]),
    Some([status_code |-> 200, text |-> <<"b">>]),
    Some([status_code |-> 500, text |-> <<"b">>]) }

\* requests.post to the Bot API: None when it raised, else the status code
SendResults == { None, Some(200), Some(400) }

\* whole seconds spent in the TLS inspection, in one requests.post (the
\* Bot API answers, or refuses, within the second) and in the GET
TlsTimes == { 2 }
PostTimes == { 0 }
GetTimes == { 1 }

\* time.sleep(1) after each site, time.sleep(10) after each iteration
SleepAfterSite == 1
SleepAfterCycle == 10

SiteIds == 1..MaxSites

\* check_ssl_expiry has a result only where it is called (an https:// url);
\* requests.post has one only where a message can be sent: after an
\* inspection that returned days_left, after an INSERT that did not raise
TlsResultsOf(url) ==
  IF Len(url) >= 5 /\ SubSeq(url, 1, 5) = <<"h","t","t","p","s">>
  THEN TlsResults ELSE { None }

SslSendResultsOf(tls) == IF IsNone(tls) THEN { Some(200) } ELSE SendResults

DownSendResultsOf(db_ok) == IF db_ok THEN SendResults ELSE { Some(200) }

VARIABLES
  sites,             \* table sites: id -> row
  next_id,           \* AUTOINCREMENT counter of table sites
  logs,              \* table logs, in insertion order
  TELEGRAM_TOKEN,
  TELEGRAM_CHAT_ID,
  pc,                \* position of polling_loop
  rows,              \* polling_loop's local `sites`: the rows fetched
  i,                 \* position of `for site in sites`
  cycle,             \* number of iterations of `while True` begun
  ncalls,            \* check_site calls made in this iteration
  seen,              \* what the probes of this iteration found
  sent,              \* requests.post calls to the Bot API in this iteration
  mark,              \* Len(logs) when this iteration fetched
  touched,           \* a web route changed the tables since the fetch
  args,              \* the most recent check_site call of this iteration:
                     \* what the network and the database answered
  last,              \* what that call did
  console,           \* the last line polling_loop printed
  clock              \* time.time() / datetime.now(), in seconds

vars ==
  << sites, next_id, logs, TELEGRAM_TOKEN, TELEGRAM_CHAT_ID, pc, rows, i,
     cycle, ncalls, seen, sent, mark, touched, args, last, console, clock >>

\* ------------------------------------------------------- send_telegram
\* Faulty variant: a failed POST is sent a second time.
send_telegram_retry(message, res) ==
  [ posts |-> IF ~IsNone(res) /\ Val(res) = 200
              THEN << message.kind >>
              ELSE << message.kind, message.kind >>,
    print |-> IF IsNone(res) THEN "telegram_error"
              ELSE IF Val(res) = 200 THEN "sent" ELSE "error",
    raised |-> FALSE ]

\* Faulty variant: the exception of requests.post is not caught.
send_telegram_raises(message, res) ==
  [ posts |-> << message.kind >>,
    print |-> IF IsNone(res) THEN "none"
              ELSE IF Val(res) = 200 THEN "sent" ELSE "error",
    raised |-> IsNone(res) ]

\* The message is POSTed whatever the credentials are; the outcome is
\* only printed, and `except Exception` lets nothing out.
send_telegram(message, res) ==
  [ posts |-> << message.kind >>,
    print |-> IF IsNone(res) THEN "telegram_error"
              ELSE IF Val(res) = 200 THEN "sent" ELSE "error",
    raised |-> FALSE ]

\* ---------------------------------------------------------- check_site
\* Faulty variant: the threshold is `days_left <= 7`.
ssl_check_within_7(url, tls, res) ==
  IF StartsWith(url, HTTPS_PREFIX)
  THEN IF ~IsNone(tls)
       THEN [ inspected |-> TRUE, days_left |-> tls, ssl_info |-> TRUE,
              sends |-> IF Val(tls) <= 7
                        THEN << send_telegram([kind |-> "ssl"], res) >>
                        ELSE << >> ]
       ELSE [ inspected |-> TRUE, days_left |-> None, ssl_info |-> FALSE,
              sends |-> << >> ]
  ELSE [ inspected |-> FALSE, days_left |-> None, ssl_info |-> FALSE,
         sends |-> << >> ]

\* Faulty variant: an inspection that raised is reported as an expiring
\* certificate.
ssl_check_warns_on_error(url, tls, res) ==
  IF StartsWith(url, HTTPS_PREFIX)
  THEN [ inspected |-> TRUE, days_left |-> tls, ssl_info |-> ~IsNone(tls),
         sends |-> IF IsNone(tls) \/ Val(tls) < 7
                   THEN << send_telegram([kind |-> "ssl"], res) >>
                   ELSE << >> ]
  ELSE [ inspected |-> FALSE, days_left |-> None, ssl_info |-> FALSE,
         sends |-> << >> ]

\* lines 89-96: TLS inspection and SSL warning of an https:// site
ssl_check(url, tls, res) ==
  IF StartsWith(url, HTTPS_PREFIX)
  THEN LET days_left == tls IN
       IF ~IsNone(days_left)
       THEN [ inspected |-> TRUE, days_left |-> days_left,
              ssl_info |-> TRUE,
              sends |-> IF Val(days_left) < 7
                        THEN << send_telegram([kind |-> "ssl"], res) >>
                        ELSE << >> ]
       ELSE [ inspected |-> TRUE, days_left |-> None, ssl_info |-> FALSE,
              sends |-> << >> ]
  ELSE [ inspected |-> FALSE, days_left |-> None, ssl_info |-> FALSE,
         sends |-> << >> ]

\* Faulty variant: a blank expected_text is searched for like any other.
http_check_no_strip(expected_text, http, elapsed) ==
  IF IsNone(http)
  THEN [ response_time |-> None, status |-> 0 ]
  ELSE LET r == Val(http)
           content_ok ==
             IF TruthyOpt(expected_text)
             THEN Contains(r.text, Val(expected_text))
             ELSE TRUE
       IN [ response_time |-> Some(elapsed),
            status |-> IF r.status_code = 200 /\ content_ok THEN 1 ELSE 0 ]

\* lines 98-107: the GET, the content match and the status
http_check(expected_text, http, elapsed) ==
  IF IsNone(http)
  THEN [ response_time |-> None, status |-> 0 ]
  ELSE LET r == Val(http)
           content_ok ==
             IF TruthyOpt(expected_text) /\ Truthy(Strip(Val(expected_text)))
             THEN Contains(r.text, Val(expected_text))
             ELSE TRUE
       IN [ response_time |-> Some(elapsed),
            status |-> IF r.status_code = 200 /\ content_ok THEN 1 ELSE 0 ]

\* lines 119-124: the reason line of the DOWN message
down_reason(response_time, http) ==
  IF IsNone(response_time) THEN "not_responding"
  ELSE IF Val(http).status_code # 200 THEN "http_status"
  ELSE "text_not_found"

\* lines 116-149: the DOWN alert, sent only with both credentials
down_alert(status, response_time, http, res) ==
  IF status = 0
  THEN LET message == [ kind |-> "down",
                        reason |-> down_reason(response_time, http) ]
       IN IF TruthyOpt(TELEGRAM_TOKEN) /\ TruthyOpt(TELEGRAM_CHAT_ID)
          THEN [ reason |-> Some(message.reason),
                 sends |-> << send_telegram(message, res) >>,
                 prints |-> << >> ]
          ELSE [ reason |-> Some(message.reason), sends |-> << >>,
                 prints |-> << "not_configured" >> ]
  ELSE [ reason |-> None, sends |-> << >>, prints |-> << >> ]

\* the requests.post calls made by a sequence of send_telegram calls
RECURSIVE Posts(_)
Posts(sends) ==
  IF sends = << >> THEN << >> ELSE Head(sends).posts \o Posts(Tail(sends))

\* Faulty variant: the timestamp keeps the date only.
timestamp_date_only(start, elapsed) == ((start + elapsed) \div 86400) * 86400

\* line 113: datetime.now() when the INSERT is made. The ISO-8601 text
\* stored sorts as the instant does; the model keeps the instant.
timestamp(start, elapsed) == start + elapsed

\* Faulty variant: the alert is sent before the result is logged.
alert_then_log(row, db_ok, alert) ==
  [ row |-> IF db_ok THEN Some(row) ELSE None,
    reason |-> alert.reason,
    sends |-> alert.sends,
    raised |-> ~db_ok \/ \E k \in 1..Len(alert.sends) : alert.sends[k].raised,
    trace |-> [k \in 1..Len(Posts(alert.sends)) |-> "post_down"]
              \o (IF \E k \in 1..Len(alert.sends) : alert.sends[k].raised
                  THEN << >>
                  ELSE IF db_ok THEN << "insert" >> ELSE << "insert_raised" >>) ]

\* lines 109-149: the log INSERT, then the alert. db_ok = FALSE: the INSERT
\* raises, and the exception leaves check_site before the alert.
log_then_alert(row, db_ok, alert) ==
  IF db_ok
  THEN [ row |-> Some(row),
         reason |-> alert.reason,
         sends |-> alert.sends,
         raised |-> \E k \in 1..Len(alert.sends) : alert.sends[k].raised,
         trace |-> << "insert" >>
                   \o [k \in 1..Len(Posts(alert.sends)) |-> "post_down"] ]
  ELSE [ row |-> None, reason |-> None, sends |-> << >>, raised |-> TRUE,
         trace |-> << "insert_raised" >> ]

\* The whole call, begun when the clock reads `start`. An exception of a
\* callee that check_site does not catch leaves check_site where it is
\* raised.
check_site(site, start, tls, http, db_ok, tls_time, post_time, get_time, res1, res2) ==
  LET ssl == ssl_check(site.url, tls, res1)
      ssl_raised == \E k \in 1..Len(ssl.sends) : ssl.sends[k].raised
      before_get == (IF ssl.inspected THEN tls_time ELSE 0)
                    + Len(Posts(ssl.sends)) * post_time
      \* line 100: time.time() - start, start taken at line 87
      elapsed == before_get + get_time
      probe == http_check(site.expected_text, http, elapsed)
      row == [ site_id |-> site.id, status |-> probe.status,
               response_time |-> probe.response_time,
               timestamp |-> timestamp(start, elapsed) ]
      alert == down_alert(probe.status, probe.response_time, http, res2)
      rec == log_then_alert(row, db_ok, alert)
      head == (IF ssl.inspected THEN << "tls" >> ELSE << >>)
              \o [k \in 1..Len(Posts(ssl.sends)) |-> "post_ssl"]
  IN IF ssl_raised
     THEN [ site_id |-> site.id,
            inspected |-> ssl.inspected,
            days_left |-> ssl.days_left,
            status |-> 1,
            response_time |-> None,
            raised |-> TRUE,
            row |-> None,
            reason |-> None,
            posts |-> Posts(ssl.sends),
            send_failed |-> TRUE,
            trace |-> head,
            started |-> start,
            finished |-> start + before_get ]
     ELSE [ site_id |-> site.id,
            inspected |-> ssl.inspected,
            days_left |-> ssl.days_left,
            status |-> probe.status,
            response_time |-> probe.response_time,
            raised |-> rec.raised,
            row |-> rec.row,
            reason |-> rec.reason,
            posts |-> Posts(ssl.sends) \o Posts(rec.sends),
            send_failed |->
              \/ \E k \in 1..Len(ssl.sends) : ssl.sends[k].print # "sent"
              \/ \E k \in 1..Len(rec.sends) : rec.sends[k].print # "sent",
            trace |-> head \o << "get" >> \o rec.trace,
            started |-> start,
            finished |-> start + elapsed + Len(Posts(rec.sends)) * post_time ]

\* ------------------------------------------------------------ tables
\* Faulty variant: the SELECT has no WHERE clause.
RECURSIVE SelectAllSites(_, _)
SelectAllSites(tbl, id) ==
  IF id > MaxSites THEN << >>
  ELSE (IF id \in DOMAIN tbl
        THEN << [ id |-> id, url |-> tbl[id].url,
                  check_interval |-> tbl[id].check_interval,
                  expected_text |-> tbl[id].expected_text ] >>
        ELSE << >>) \o SelectAllSites(tbl, id + 1)

\* Faulty variant: a site whose check_interval is longer than the pause of
\* the loop is left for a later iteration.
RECURSIVE SelectEnabledDue(_, _)
SelectEnabledDue(tbl, id) ==
  IF id > MaxSites THEN << >>
  ELSE (IF /\ id \in DOMAIN tbl
           /\ tbl[id].enabled = 1
           /\ tbl[id].check_interval <= SleepAfterCycle
        THEN << [ id |-> id, url |-> tbl[id].url,
                  check_interval |-> tbl[id].check_interval,
                  expected_text |-> tbl[id].expected_text ] >>
        ELSE << >>) \o SelectEnabledDue(tbl, id + 1)

\* SELECT id, url, check_interval, expected_text FROM sites WHERE enabled = 1
RECURSIVE SelectEnabled(_, _)
SelectEnabled(tbl, id) ==
  IF id > MaxSites THEN << >>
  ELSE (IF id \in DOMAIN tbl /\ tbl[id].enabled = 1
        THEN << [ id |-> id, url |-> tbl[id].url,
                  check_interval |-> tbl[id].check_interval,
                  expected_text |-> tbl[id].expected_text ] >>
        ELSE << >>) \o SelectEnabled(tbl, id + 1)

\* DELETE FROM logs WHERE site_id = ?
RECURSIVE DeleteLogs(_, _)
DeleteLogs(tbl, site_id) ==
  IF tbl = << >> THEN << >>
  ELSE (IF Head(tbl).site_id = site_id THEN << >> ELSE << Head(tbl) >>)
       \o DeleteLogs(Tail(tbl), site_id)

NoArgs ==
  [ tls |-> None, http |-> None, db_ok |-> TRUE,
    tls_time |-> 0, post_time |-> 0, get_time |-> 0 ]

NoCall ==
  [ site_id |-> 0, inspected |-> FALSE, days_left |-> None, status |-> 1,
    response_time |-> None, raised |-> FALSE, row |-> None, reason |-> None,
    posts |-> << >>, send_failed |-> FALSE, trace |-> << >>,
    started |-> 0, finished |-> 0 ]

Count(seq, kind) == Cardinality({ k \in 1..Len(seq) : seq[k] = kind })

Init ==
  /\ sites = << >>
  /\ next_id = 1
  /\ logs = << >>
  /\ \E env \in Deployments :
       /\ TELEGRAM_TOKEN = env.TELEGRAM_TOKEN
       /\ TELEGRAM_CHAT_ID = env.TELEGRAM_CHAT_ID
  /\ pc = "fetch"
  /\ rows = << >>
  /\ i = 1
  /\ cycle = 0
  /\ ncalls = 0
  /\ seen = [ down |-> 0, ssl |-> 0 ]
  /\ sent = [ down |-> 0, ssl |-> 0 ]
  /\ mark = 0
  /\ touched = FALSE
  /\ args = NoArgs
  /\ last = NoCall
  /\ console = "started"
  /\ clock = 0

\* ------------------------------------------------------- polling_loop
\* line 177-178: the SELECT of the enabled sites succeeds
Fetch ==
  /\ pc = "fetch"
  /\ cycle < MaxCycles
  /\ rows' = SelectEnabled(sites, 1)
  /\ i' = 1
  /\ pc' = "loop"
  /\ cycle' = cycle + 1
  /\ ncalls' = 0
  /\ seen' = [ down |-> 0, ssl |-> 0 ]
  /\ sent' = [ down |-> 0, ssl |-> 0 ]
  /\ mark' = Len(logs)
  /\ touched' = FALSE
  /\ args' = NoArgs
  /\ last' = NoCall
  /\ UNCHANGED << sites, next_id, logs, TELEGRAM_TOKEN, TELEGRAM_CHAT_ID, console,
                  clock >>

\* line 177-178 raising (the database is locked): control goes to line 183
FetchFault ==
  /\ pc = "fetch"
  /\ cycle < MaxCycles
  /\ rows' = << >>
  /\ i' = 1
  /\ pc' = "except"
  /\ cycle' = cycle + 1
  /\ ncalls' = 0
  /\ seen' = [ down |-> 0, ssl |-> 0 ]
  /\ sent' = [ down |-> 0, ssl |-> 0 ]
  /\ mark' = Len(logs)
  /\ touched' = FALSE
  /\ args' = NoArgs
  /\ last' = NoCall
  /\ UNCHANGED << sites, next_id, logs, TELEGRAM_TOKEN, TELEGRAM_CHAT_ID, console,
                  clock >>

\* Faulty variant: check_site is started on a thread of its own and the
\* loop does not wait for it.
CheckSite_in_thread ==
  /\ pc = "loop"
  /\ i <= Len(rows)
  /\ ncalls' = ncalls + 1
  /\ UNCHANGED << sites, next_id, TELEGRAM_TOKEN, TELEGRAM_CHAT_ID, rows,
                  cycle, mark, touched, console >>
  /\ \E tls \in TlsResultsOf(rows[i].url), http \in HttpResults,
        db_ok \in BOOLEAN, tls_time \in TlsTimes, post_time \in PostTimes,
        get_time \in GetTimes :
     /\ args' = [ tls |-> tls, http |-> http, db_ok |-> db_ok,
                  tls_time |-> tls_time, post_time |-> post_time,
                  get_time |-> get_time ]
     /\ \E res1 \in SslSendResultsOf(tls), res2 \in DownSendResultsOf(db_ok) :
        \E call \in { check_site(rows[i], clock, tls, http, db_ok, tls_time,
                                 post_time, get_time, res1, res2) } :
       LET expiring == /\ StartsWith(rows[i].url, HTTPS_PREFIX)
                       /\ ~IsNone(tls)
                       /\ Val(tls) < 7
       IN /\ last' = call
          /\ logs' = IF IsNone(call.row) THEN logs ELSE Append(logs, Val(call.row))
          /\ seen' = [ down |-> seen.down + (IF call.status = 0 THEN 1 ELSE 0),
                       ssl |-> seen.ssl + (IF expiring THEN 1 ELSE 0) ]
          /\ sent' = [ down |-> sent.down + Count(call.posts, "down"),
                       ssl |-> sent.ssl + Count(call.posts, "ssl") ]
          /\ IF call.raised
             THEN pc' = "except" /\ i' = i /\ clock' = clock
             ELSE /\ pc' = "loop" /\ i' = i + 1
                  /\ clock' = clock + SleepAfterSite

\* lines 179-181: check_site(site); time.sleep(1). An exception of
\* check_site leaves the for loop for the handler of line 183.
CheckSite ==
  /\ pc = "loop"
  /\ i <= Len(rows)
  /\ ncalls' = ncalls + 1
  /\ UNCHANGED << sites, next_id, TELEGRAM_TOKEN, TELEGRAM_CHAT_ID, rows,
                  cycle, mark, touched, console >>
  /\ \E tls \in TlsResultsOf(rows[i].url), http \in HttpResults,
        db_ok \in BOOLEAN, tls_time \in TlsTimes, post_time \in PostTimes,
        get_time \in GetTimes :
     /\ args' = [ tls |-> tls, http |-> http, db_ok |-> db_ok,
                  tls_time |-> tls_time, post_time |-> post_time,
                  get_time |-> get_time ]
     /\ \E res1 \in SslSendResultsOf(tls), res2 \in DownSendResultsOf(db_ok) :
        \E call \in { check_site(rows[i], clock, tls, http, db_ok, tls_time,
                                 post_time, get_time, res1, res2) } :
       LET expiring == /\ StartsWith(rows[i].url, HTTPS_PREFIX)
                       /\ ~IsNone(tls)
                       /\ Val(tls) < 7
       IN /\ last' = call
          /\ logs' = IF IsNone(call.row) THEN logs ELSE Append(logs, Val(call.row))
          /\ seen' = [ down |-> seen.down + (IF call.status = 0 THEN 1 ELSE 0),
                       ssl |-> seen.ssl + (IF expiring THEN 1 ELSE 0) ]
          /\ sent' = [ down |-> sent.down + Count(call.posts, "down"),
                       ssl |-> sent.ssl + Count(call.posts, "ssl") ]
          /\ IF call.raised
             THEN pc' = "except" /\ i' = i /\ clock' = call.finished
             ELSE /\ pc' = "loop" /\ i' = i + 1
                  /\ clock' = call.finished + SleepAfterSite

\* What the loop keeps of an iteration once it is over: nothing. rows and i
\* are assigned again before they are read, and the observations of the
\* iteration end with it.
Forget ==
  /\ rows' = << >>
  /\ i' = 1
  /\ ncalls' = 0
  /\ seen' = [ down |-> 0, ssl |-> 0 ]
  /\ sent' = [ down |-> 0, ssl |-> 0 ]
  /\ mark' = 0
  /\ touched' = FALSE
  /\ args' = NoArgs
  /\ last' = NoCall

\* line 182: the for loop is exhausted; time.sleep(10)
EndCycle ==
  /\ pc = "loop"
  /\ i > Len(rows)
  /\ pc' = "fetch"
  /\ Forget
  /\ clock' = clock + SleepAfterCycle
  /\ UNCHANGED << sites, next_id, logs, TELEGRAM_TOKEN, TELEGRAM_CHAT_ID, cycle,
                  console >>

\* Faulty variant: the handler prints the error and lets the thread end.
Except_thread_ends ==
  /\ pc = "except"
  /\ console' = "error"
  /\ pc' = "ended"
  /\ Forget
  /\ clock' = clock + SleepAfterCycle
  /\ UNCHANGED << sites, next_id, logs, TELEGRAM_TOKEN, TELEGRAM_CHAT_ID, cycle >>

\* lines 183-185: print the error; time.sleep(10); back to `while True`
Except ==
  /\ pc = "except"
  /\ console' = "error"
  /\ pc' = "fetch"
  /\ Forget
  /\ clock' = clock + SleepAfterCycle
  /\ UNCHANGED << sites, next_id, logs, TELEGRAM_TOKEN, TELEGRAM_CHAT_ID, cycle >>

\* --------------------------------------------------------- web routes
\* POST /: register a site
index ==
  /\ next_id <= MaxSites
  /\ \E form \in Forms :
       LET url == Strip(form.url)
           interval == Max(10, form.interval)
           text == Strip(form.text)
       IN IF Truthy(url)
          THEN /\ sites' = [ id \in DOMAIN sites \cup {next_id} |->
                             IF id = next_id
                             THEN [ url |-> url, check_interval |-> interval,
                                    expected_text |->
                                      IF Truthy(text) THEN Some(text) ELSE None,
                                    enabled |-> 1 ]
                             ELSE sites[id] ]
               /\ next_id' = next_id + 1
               /\ touched' = (pc # "fetch")
          ELSE UNCHANGED << sites, next_id, touched >>
  /\ UNCHANGED << logs, TELEGRAM_TOKEN, TELEGRAM_CHAT_ID, pc, rows, i, cycle,
                  ncalls, seen, sent, mark, args, last, console, clock >>

\* Faulty variant: disabling a site also deletes its logs.
toggle_drops_logs ==
  /\ \E site_id \in SiteIds :
       IF site_id \in DOMAIN sites
       THEN LET new_state == IF sites[site_id].enabled # 0 THEN 0 ELSE 1
            IN /\ sites' = [ sites EXCEPT ![site_id].enabled = new_state ]
               /\ logs' = IF new_state = 0 THEN DeleteLogs(logs, site_id) ELSE logs
               /\ touched' = (pc # "fetch")
       ELSE UNCHANGED << sites, logs, touched >>
  /\ UNCHANGED << next_id, TELEGRAM_TOKEN, TELEGRAM_CHAT_ID, pc, rows, i,
                  cycle, ncalls, seen, sent, mark, args, last, console, clock >>

\* GET /toggle/<site_id>; an unknown id raises before the UPDATE
toggle ==
  /\ \E site_id \in SiteIds :
       IF site_id \in DOMAIN sites
       THEN LET new_state == IF sites[site_id].enabled # 0 THEN 0 ELSE 1
            IN /\ sites' = [ sites EXCEPT ![site_id].enabled = new_state ]
               /\ touched' = (pc # "fetch")
       ELSE UNCHANGED << sites, touched >>
  /\ UNCHANGED << next_id, logs, TELEGRAM_TOKEN, TELEGRAM_CHAT_ID, pc, rows, i,
                  cycle, ncalls, seen, sent, mark, args, last, console, clock >>

\* GET /delete/<site_id>
delete ==
  /\ \E site_id \in SiteIds :
       /\ sites' = [ id \in DOMAIN sites \ {site_id} |-> sites[id] ]
       /\ logs' = DeleteLogs(logs, site_id)
       /\ touched' = (pc # "fetch" /\ (touched \/ sites' # sites \/ logs' # logs))
  /\ UNCHANGED << next_id, TELEGRAM_TOKEN, TELEGRAM_CHAT_ID, pc, rows, i, cycle,
                  ncalls, seen, sent, mark, args, last, console, clock >>

\* SELECT id FROM logs WHERE site_id = ? ORDER BY timestamp DESC LIMIT 1:
\* the positions in logs of the rows of the site with the greatest
\* timestamp: none when the site has no row, else the one the query returns
\* (any of them, were two timestamps equal)
LatestLog(tbl, site_id) ==
  { k \in 1..Len(tbl) :
      /\ tbl[k].site_id = site_id
      /\ \A l \in 1..Len(tbl) :
           tbl[l].site_id = site_id => tbl[l].timestamp <= tbl[k].timestamp }

\* GET /admin: the general statistics handed to the template
admin ==
  LET total == Cardinality(DOMAIN sites)
      active == Cardinality({ id \in DOMAIN sites : sites[id].enabled = 1 })
      up_now == Cardinality({ id \in DOMAIN sites :
                                \E k \in LatestLog(logs, id) : logs[k].status = 1 })
      down_now == active - up_now
  IN [ total |-> total, active |-> active, up_now |-> up_now,
       down_now |-> down_now ]

polling_loop == Fetch \/ FetchFault \/ CheckSite \/ EndCycle \/ Except

Next == polling_loop \/ index \/ toggle \/ delete

Spec == Init /\ [][Next]_vars

\* The thread of start_polling runs for as long as the process does: every
\* sleep ends and every network call returns within its timeout.
LiveSpec == Init /\ [][Next]_vars /\ WF_vars(polling_loop)

\* ------------------------------------------- check_site on any site row
\* The rows the sites table can hold (the database is a file; index() is
\* not its only writer): check_site is called once on one of them.
RowInputs ==
  { [ id |-> 1, url |-> u, check_interval |-> 60, expected_text |-> t ] :
      u \in { HTTPS_PREFIX \o <<"a">>, HTTP_PREFIX \o <<"a">> },
      t \in { None, Some(EmptyStr), Some(<<" ">>), Some(<<"a">>) } }

InitClassify ==
  /\ sites = << >>
  /\ next_id = 1
  /\ logs = << >>
  /\ \E env \in Deployments :
       /\ TELEGRAM_TOKEN = env.TELEGRAM_TOKEN
       /\ TELEGRAM_CHAT_ID = env.TELEGRAM_CHAT_ID
  /\ pc = "loop"
  /\ \E row \in RowInputs : rows = << row >>
  /\ i = 1
  /\ cycle = MaxCycles
  /\ ncalls = 0
  /\ seen = [ down |-> 0, ssl |-> 0 ]
  /\ sent = [ down |-> 0, ssl |-> 0 ]
  /\ mark = 0
  /\ touched = FALSE
  /\ args = NoArgs
  /\ last = NoCall
  /\ console = "started"
  /\ clock = 0

NextClassify == CheckSite \/ EndCycle \/ Except

SpecClassify == InitClassify /\ [][NextClassify]_vars

\* ------------------------------------------------------------ claims
Called == last.site_id # 0

\* the row the most recent call was made on: the calls of an iteration
\* take the rows in order
CalledSite == rows[ncalls]

Configured ==
  /\ TELEGRAM_TOKEN # None /\ Val(TELEGRAM_TOKEN) # EmptyStr
  /\ TELEGRAM_CHAT_ID # None /\ Val(TELEGRAM_CHAT_ID) # EmptyStr

\* the iteration of the loop is over: the for loop is exhausted, or an
\* exception has reached the handler of line 183
InCycle == pc # "fetch"
CycleDone == pc = "loop" /\ i > Len(rows)
CycleAborted == pc = "except"

\* the rows this iteration has appended to logs, while no route has
\* touched the tables
Appended == SubSeq(logs, mark + 1, Len(logs))

RowsOf(seq, site_id) == { k \in 1..Len(seq) : seq[k].site_id = site_id }

\* C1: when a check_site call of an iteration raises, the sites of the
\* snapshot that come after it are still probed in that iteration: no
\* iteration ends in the handler with fewer calls than sites fetched.
C1_FaultIsolation == CycleAborted => ncalls = Len(rows)

\* C2: the loop never terminates: whatever faults the fetch and the probes
\* meet, the loop begins every iteration the model lets it run (a new fetch
\* after each one) and is back at `while True` after the last.
C2_LoopNeverTerminates == <>[](pc = "fetch" /\ cycle = MaxCycles)

\* a fault was caught and printed, and the loop has fetched again
C2_Witness == console = "error" /\ pc = "loop" /\ cycle = MaxCycles

\* C3: the classification table, in its priority order
Blank(str) == \A k \in 1..Len(str) : str[k] = " "

TextRequired(expected_text) ==
  expected_text # None /\ ~Blank(Val(expected_text))

Table(r, expected_text) ==
  IF r = None
  THEN [ status |-> 0, measured |-> FALSE, reason |-> Some("not_responding") ]
  ELSE IF Val(r).status_code # 200
  THEN [ status |-> 0, measured |-> TRUE, reason |-> Some("http_status") ]
  ELSE IF TextRequired(expected_text)
          /\ ~Contains(Val(r).text, Val(expected_text))
  THEN [ status |-> 0, measured |-> TRUE, reason |-> Some("text_not_found") ]
  ELSE [ status |-> 1, measured |-> TRUE, reason |-> None ]

\* C3: every call classifies by the table: the status, whether a response
\* time was measured, the row recorded and the reason of the DOWN message
\* are those of the first line of the table that applies.
C3_ClassificationTable ==
  Called =>
    LET t == Table(args.http, CalledSite.expected_text)
    IN /\ last.status = t.status
       /\ (last.response_time # None) = t.measured
       /\ last.row # None =>
            /\ Val(last.row).status = t.status
            /\ (Val(last.row).response_time # None) = t.measured
            /\ last.reason = t.reason
       /\ Count(last.posts, "down") > 0 => last.reason = t.reason /\ t.status = 0

\* a non-200 answer whose body also lacks the expected text: the reason
\* sent is the status code
C3_Witness ==
  /\ Called
  /\ args.http # None /\ Val(args.http).status_code # 200
  /\ TextRequired(CalledSite.expected_text)
  /\ ~Contains(Val(args.http).text, Val(CalledSite.expected_text))
  /\ last.reason = Some("http_status")
  /\ Count(last.posts, "down") = 1

\* C4: without both credentials nothing is POSTed to the Bot API.
C4_NoPostWithoutCredentials == ~Configured => sent.ssl + sent.down = 0

\* C5 as claimed: with credentials, every call that classifies its site
\* DOWN makes exactly one DOWN POST.
C5_OneDownPostPerDownProbe ==
  (Configured /\ Called /\ last.status = 0) => Count(last.posts, "down") = 1

\* C5 as amended: with credentials, a call makes exactly one DOWN POST when
\* it classified the site DOWN and its log INSERT succeeded, and none
\* otherwise, whatever the earlier iterations sent and whatever the POST
\* answers; over an iteration the DOWN POSTs are as many as the DOWN rows
\* it recorded.
C5_OneDownPostPerRecordedDown ==
  Configured =>
    /\ Called =>
         Count(last.posts, "down") =
           (IF last.status = 0 /\ ~last.raised THEN 1 ELSE 0)
    /\ (InCycle /\ ~touched) =>
         sent.down =
           Cardinality({ k \in 1..Len(Appended) : Appended[k].status = 0 })

\* the site was already recorded DOWN by an earlier iteration, it is DOWN
\* again, and the one POST of this call failed
C5_Witness ==
  /\ Configured /\ Called /\ InCycle /\ ~touched
  /\ last.status = 0 /\ ~last.raised /\ last.send_failed
  /\ Count(last.posts, "down") = 1
  /\ \E k \in 1..mark : logs[k].site_id = last.site_id /\ logs[k].status = 0

\* C6: in an iteration the SSL warnings sent are as many as the https
\* sites probed whose inspection returned days_left < 7, and each call
\* sends one exactly in that case.
C6_SslWarningPerExpiringCert ==
  /\ sent.ssl = seen.ssl
  /\ Called =>
       Count(last.posts, "ssl") =
         (IF /\ StartsWith(CalledSite.url, HTTPS_PREFIX)
             /\ args.tls # None
             /\ Val(args.tls) < 7
          THEN 1 ELSE 0)

\* a later iteration that probed two sites, one of them expiring
C6_Witness ==
  /\ cycle = MaxCycles /\ ncalls = 2
  /\ seen.ssl = 1 /\ sent.ssl = 1

\* C7: an inspection that failed sends no SSL warning, and the GET is
\* made and classified by its own outcome.
C7_TlsFailureIsNotDown ==
  (Called /\ last.inspected /\ last.days_left = None) =>
    /\ Count(last.posts, "ssl") = 0
    /\ \E k \in 1..Len(last.trace) : last.trace[k] = "get"
    /\ last.status = Table(args.http, CalledSite.expected_text).status
    /\ last.row # None =>
         Val(last.row).status = Table(args.http, CalledSite.expected_text).status

\* the inspection failed and the site is recorded UP
C7_Witness ==
  /\ Called /\ last.inspected /\ last.days_left = None
  /\ last.row # None /\ Val(last.row).status = 1

\* the sites enabled / disabled in the table
Enabled == { id \in DOMAIN sites : sites[id].enabled = 1 }

\* one UP row for each enabled site, nothing else, and no POST
OneUpRowEach ==
  /\ Len(Appended) = Cardinality(Enabled)
  /\ \A id \in Enabled : Cardinality(RowsOf(Appended, id)) = 1
  /\ \A k \in 1..Len(Appended) : Appended[k].status = 1
  /\ sent.ssl + sent.down = 0

\* every probe of the iteration found its site healthy, and no route
\* changed the tables during it
HealthyUnchanged == ~touched /\ seen.down = 0 /\ seen.ssl = 0

IsPrefix(s, t) == Len(s) <= Len(t) /\ SubSeq(t, 1, Len(s)) = s

RECURSIVE SelectLogs(_, _)
SelectLogs(tbl, site_id) ==
  IF tbl = << >> THEN << >>
  ELSE (IF Head(tbl).site_id = site_id THEN << Head(tbl) >> ELSE << >>)
       \o SelectLogs(Tail(tbl), site_id)

\* C9: a fetch takes no site that is disabled when it runs, and only
\* fetched sites are probed; a step that changes the enabled flag of a
\* site changes no log; the logs of a site that stays in the table are
\* only added to.
C9_DisabledSiteLeftAlone ==
  [][ /\ (pc = "fetch" /\ pc' = "loop") =>
           \A id \in DOMAIN sites :
             sites[id].enabled = 0 => \A k \in 1..Len(rows') : rows'[k].id # id
      /\ (Len(logs') > Len(logs)) =>
           /\ pc = "loop" /\ i <= Len(rows)
           /\ logs'[Len(logs')].site_id = rows[i].id
      /\ (\E id \in DOMAIN sites \cap DOMAIN sites' :
            sites'[id].enabled # sites[id].enabled) => logs' = logs
      /\ \A id \in DOMAIN sites' :
           IsPrefix(SelectLogs(logs, id), SelectLogs(logs', id))
    ]_vars

\* a site with a log was disabled, and a later iteration runs without it
C9_Witness ==
  /\ pc = "loop" /\ cycle = MaxCycles
  /\ \E id \in DOMAIN sites :
       /\ sites[id].enabled = 0
       /\ SelectLogs(logs, id) # << >>
       /\ \A k \in 1..Len(rows) : rows[k].id # id
  /\ Called /\ last.row # None

\* C10: a row appended to logs names a site that is in the sites table
\* when the row is written.
C10_LogNamesExistingSite ==
  [][ Len(logs') > Len(logs) => logs'[Len(logs')].site_id \in DOMAIN sites ]_vars

\* the ids the sites table has given out and no longer holds: AUTOINCREMENT
\* never gives an id twice, so these are the sites that were deleted
Deleted == { id \in 1..(next_id - 1) : id \notin DOMAIN sites }

\* C11: once delete(site_id) has completed, no log record with that
\* site_id exists, whatever the polling loop was doing when it ran.
C11_DeleteCascades == \A id \in Deleted : SelectLogs(logs, id) = << >>

\* the most recent call again, on the same site and with the same answers
\* of the network and the database, but with every requests.post to the
\* Bot API answering 200
AsIfSent ==
  check_site(CalledSite, last.started, args.tls, args.http, args.db_ok,
             args.tls_time, args.post_time, args.get_time, Some(200), Some(200))

C13_ResponseTimeIsGetTime ==
  (Called /\ args.http # None /\ last.row # None) =>
    Val(last.row).response_time = Some(args.get_time)

\* the check_interval values a site can be registered with
Intervals == { Max(10, form.interval) : form \in Forms }

\* the sites table with other check_interval values
WithIntervals(tbl, f) ==
  [ id \in DOMAIN tbl |-> [ tbl[id] EXCEPT !.check_interval = f[id] ] ]

Ids(seq) == [ k \in 1..Len(seq) |-> seq[k].id ]

\* C14: the probe schedule does not depend on check_interval: a fetch takes
\* the same sites in the same order from every sites table that differs
\* from the present one in check_interval values only, in every iteration;
\* the calls of an iteration take the fetched rows in order, one call per
\* row; and an iteration that ends without a fault has probed each row of
\* its snapshot exactly once.
C14_ScheduleIgnoresInterval ==
  [][ /\ (pc = "fetch" /\ pc' = "loop") =>
           /\ \A f \in [ DOMAIN sites -> Intervals ] :
                Ids(SelectEnabled(WithIntervals(sites, f), 1)) = Ids(rows')
           /\ \A id \in DOMAIN sites :
                sites[id].enabled = 1 =>
                  Cardinality({ k \in 1..Len(rows') : rows'[k].id = id }) = 1
      /\ (ncalls' = ncalls + 1) =>
           /\ ncalls' <= Len(rows)
           /\ last'.site_id = rows[ncalls'].id
           /\ rows' = rows
      /\ (pc = "loop" /\ pc' = "fetch") => ncalls = Len(rows)
    ]_vars

\* an iteration without fault over two sites of different check_interval
C14_Witness ==
  /\ CycleDone /\ ncalls = 2 /\ cycle = MaxCycles
  /\ rows[1].check_interval # rows[2].check_interval

\* C15: the rows of a site are in the log in strictly increasing timestamp
\* order: a row appended for a site has a timestamp greater than that of
\* every row the log already holds for it, in whatever iteration those
\* were written.
C15_TimestampsIncreasePerSite ==
  \A k, l \in 1..Len(logs) :
    (k < l /\ logs[k].site_id = logs[l].site_id) =>
      logs[k].timestamp < logs[l].timestamp

\* a site has a row from each of two iterations
C15_Witness ==
  /\ cycle = MaxCycles /\ mark > 0 /\ Len(logs) > mark
  /\ \E k \in 1..mark : logs[k].site_id = logs[Len(logs)].site_id

\* the place of a step in a probe: TLS inspection, SSL warning, GET,
\* record, DOWN alert
Rank(step) ==
  CASE step = "tls" -> 1
    [] step = "post_ssl" -> 2
    [] step = "get" -> 3
    [] step = "insert" -> 4
    [] step = "insert_raised" -> 4
    [] step = "post_down" -> 5

\* C16: probing is sequential. The steps of a probe come in their order
\* (the TLS inspection first for an https:// url, then the GET, then the
\* record); a probe starts when the one before it has finished and the loop
\* goes on when it has finished itself; an iteration is begun only from
\* `while True`, with no probe under way and every row of the log written.
C16_OneProbeAtATime ==
  [][ /\ (ncalls' = ncalls + 1) =>
           /\ \A k, l \in 1..Len(last'.trace) :
                k < l => Rank(last'.trace[k]) < Rank(last'.trace[l])
           /\ StartsWith(rows[ncalls'].url, HTTPS_PREFIX) =>
                last'.trace[1] = "tls"
           /\ \E k \in 1..Len(last'.trace) : last'.trace[k] = "get"
           /\ \E k \in 1..Len(last'.trace) : Rank(last'.trace[k]) = 4
           /\ last'.started = clock
           /\ last'.started >= last.finished
           /\ last'.started < last'.finished
           /\ last'.finished <= clock'
      /\ (cycle' = cycle + 1) =>
           /\ pc = "fetch" /\ ~Called
           /\ \A k \in 1..Len(logs) : logs[k].timestamp <= clock
    ]_vars

\* the second probe of a later iteration made every step
C16_Witness ==
  /\ Called /\ ncalls = 2 /\ cycle = MaxCycles
  /\ last.trace = << "tls", "post_ssl", "get", "insert", "post_down" >>

\* C17: a DOWN alert is POSTed only after the row of its probe has been
\* written: every DOWN POST of a call comes after its INSERT, a call whose
\* INSERT raised makes no DOWN POST and leaves no row, whatever SSL warning
\* it sent before the GET.
C17_RecordBeforeAlert ==
  Called =>
    /\ \A l \in 1..Len(last.trace) :
         last.trace[l] = "post_down" =>
           \E k \in 1..(l - 1) : last.trace[k] = "insert"
    /\ Count(last.posts, "down") > 0 =>
         /\ last.row # None /\ Val(last.row).status = 0
         /\ ~touched => logs # << >> /\ logs[Len(logs)] = Val(last.row)
    /\ (\E k \in 1..Len(last.trace) : last.trace[k] = "insert_raised") =>
         /\ Count(last.posts, "down") = 0
         /\ last.row = None
         /\ ~touched => Len(logs) = mark + ncalls - 1

\* a DOWN site with an expiring certificate and credentials: the warning
\* went out, the INSERT raised, no alert followed
C17_Witness ==
  /\ Called /\ Configured /\ last.status = 0
  /\ last.trace = << "tls", "post_ssl", "get", "insert_raised" >>
  /\ last.posts = << "ssl" >>

\* C18: an iteration probes the snapshot of its fetch. The fetch takes
\* exactly the sites enabled at that moment, with their url and
\* expected_text; a route that changes the sites table during the iteration
\* changes neither the snapshot nor the position in it; every call is made
\* on the next row of the snapshot, with the url and expected_text read at
\* the fetch; and when the iteration ends every row of the snapshot has
\* been probed, so that a site disabled or deleted after the fetch is still
\* probed and one registered after it is not.
C18_SnapshotSemantics ==
  [][ /\ (pc = "fetch" /\ pc' = "loop") =>
           /\ { rows'[k].id : k \in 1..Len(rows') } = Enabled
           /\ \A k \in 1..Len(rows') :
                /\ rows'[k].url = sites[rows'[k].id].url
                /\ rows'[k].expected_text = sites[rows'[k].id].expected_text
      /\ (pc = "loop" /\ sites' # sites) => rows' = rows /\ i' = i
      /\ (ncalls' = ncalls + 1) =>
           /\ rows' = rows
           /\ last'.site_id = rows[ncalls'].id
           /\ last'.inspected = StartsWith(rows[ncalls'].url, HTTPS_PREFIX)
           /\ last'.status =
                Table(args'.http, rows[ncalls'].expected_text).status
      /\ (pc # "fetch" /\ pc' = "fetch") => ncalls = Len(rows)
    ]_vars

\* C19: in the admin view down_now is never negative, it is the number of
\* enabled sites whose most recent log row is not UP or that have no log
\* row, and up_now + down_now = active.
C19_AdminCounts ==
  /\ admin.down_now >= 0
  /\ admin.down_now =
       Cardinality({ id \in Enabled :
                       \A k \in LatestLog(logs, id) : logs[k].status # 1 })
  /\ admin.up_now + admin.down_now = admin.active

====
